---------------------------- MODULE Spec2Model ----------------------------
(***************************************************************************)
(* The 2048 rules engine of src/2048/main.py (class Game): the grid, the  *)
(* line combiner, the slide/merge phase, the tile spawner, the game-over  *)
(* check and make_move, plus the object references through which the      *)
(* constructor and get_grid hand the grid to the caller.                  *)
(*                                                                         *)
(* A grid is a sequence of rows, each a sequence of tiles, as the Python  *)
(* list of lists.  TLA+ sequences count from 1 and the code from 0: the   *)
(* coordinates x, y and the loop indices below are the code's (from 0),   *)
(* and a cell is read as g[y + 1][x + 1].  A list object is the outer     *)
(* list together with its rows: the rows of a grid are distinct lists     *)
(* that no other grid shares.                                             *)
(***************************************************************************)
EXTENDS Integers, Sequences, FiniteSets, Bags, TLC

VARIABLES
    heap,       \* the list objects: object -> its grid (a list of rows), or NoGrid
    self_grid,  \* Game.__grid: the object the engine's grid attribute refers to
    held,       \* the grid object the caller holds a reference to (or None)
    origin,     \* how the game was constructed: "fresh", "supplied" or "none"
    given,      \* the grid Game(grid) was given, as it was then (or NoGrid)
    op,         \* the last operation that ran
    arg,        \* its argument
    ret,        \* its return value
    raised,     \* whether it raised ValueError
    pre,        \* the engine's grid when it started
    slid,       \* make_move: the grid after __move_tiles, before the spawn
    moved,      \* make_move: the flag __move_tiles returned
    nmoves,     \* make_move calls so far
    nwrites,    \* writes the caller has made through the reference it holds
    game_overs  \* make_move calls so far that returned game over = True

vars == <<heap, self_grid, held, origin, given, op, arg, ret, raised, pre, slid, moved,
          nmoves, nwrites, game_overs>>

----------------------------------------------------------------------------
(* Program constants *)

ROWS == 4
COLS == 4

UP == 1
DOWN == 2
LEFT == 3
RIGHT == 4

Direction == {UP, DOWN, LEFT, RIGHT}

(* randint(0, 9) draws from 0 .. RandintHigh *)
RandintHigh == 9

----------------------------------------------------------------------------
(* Bounds of the model *)

(* tiles of a supplied grid or line are 0 or 2^1 .. 2^MaxExp *)
MaxExp == 3

(* make_move calls explored from a game constructed from a supplied grid *)
MaxMoves == 2

(* games are played to their end from grids with up to MaxPlayFree cells
   that are empty or hold a 2 or a 4, the other cells holding big tiles *)
MaxPlayFree == 2

(* make_move calls explored from a game constructed by Game() *)
MaxFreshMoves == 1

(* writes the caller makes through a grid reference it holds *)
MaxWrites == 1

(* Game(grid) is tried on lists of ROWS - DimSlack .. ROWS + DimSlack rows of
   COLS - DimSlack .. COLS + DimSlack tiles each *)
DimSlack == 1

(* the line combiner is tried on the columns of grids configured with
   ROWS - LineSlack .. ROWS + LineSlack rows (__ROWS, line 26) *)
LineSlack == 1

(* __set_tile is tried on coordinates up to SetSlack beyond the grid on
   either side, and on values from -SetSlack to 2^MaxExp + SetSlack *)
SetSlack == 1

RECURSIVE Pow2(_)
Pow2(e) == IF e = 0 THEN 1 ELSE 2 * Pow2(e - 1)

TileValues == {0} \cup {Pow2(e) : e \in 1..MaxExp}

(* The outcomes of randint(0, 9) that the model draws: the two ends of the
   range, of which 0 gives a 4 and the other a 2. *)
RandintDraws == {0, RandintHigh}

None == "None"
NoGrid == <<>>

(* The two list objects a run can hold: the list the caller built and passed
   to Game(grid), and the list Game() builds itself. *)
CallerList == "caller_list"
EngineList == "engine_list"
Objects == {CallerList, EngineList}

----------------------------------------------------------------------------
(* Helpers for Python lists *)

Max(a, b) == IF a >= b THEN a ELSE b

Zeros(n) == [i \in 1..n |-> 0]

(* tiles[::-1] and tiles.reverse() *)
Reversed(s) == [i \in 1..Len(s) |-> s[Len(s) + 1 - i]]

(* [tile for tile in tiles if tile != 0] *)
NonZero(s) == SelectSeq(s, LAMBDA tile : tile # 0)

(* tiles.pop(i), i from 0 *)
Pop(s, i) == [k \in 1..(Len(s) - 1) |-> IF k <= i THEN s[k] ELSE s[k + 1]]

EmptyGrid == [y \in 1..ROWS |-> [x \in 1..COLS |-> 0]]

----------------------------------------------------------------------------
(* Game.__set_tile *)

(* A faulty variant: only the upper ends of the ranges are checked, so that
   a negative coordinate counts from the end of the list. *)
set_tile_no_lower_check(g, x, y, value) ==
    IF value % 2 # 0
    THEN [grid |-> g, raised |-> TRUE]
    ELSE IF x < COLS /\ y < ROWS /\ 0 - COLS <= x /\ 0 - ROWS <= y
         THEN [grid |-> [g EXCEPT ![(y % ROWS) + 1][(x % COLS) + 1] = value],
               raised |-> FALSE]
         ELSE [grid |-> g, raised |-> TRUE]

(* The grid after the call, and whether it raised. *)
set_tile(g, x, y, value) ==
    IF value % 2 # 0
    THEN [grid |-> g, raised |-> TRUE]
    ELSE IF 0 <= x /\ x < COLS /\ 0 <= y /\ y < ROWS
         THEN [grid |-> [g EXCEPT ![y + 1][x + 1] = value], raised |-> FALSE]
         ELSE [grid |-> g, raised |-> TRUE]

----------------------------------------------------------------------------
(* Game.__combine_tiles *)

(* A faulty variant: the merged tile grows by 2 instead of doubling. *)
merged_value_plus_two(tile) == tile + 2

(* tiles[current_tile] *= 2 *)
merged_value(tile) == tile * 2

(* A faulty variant: current_tile does not advance after a merge, so the merged tile is
   compared again with its next neighbour. *)
RECURSIVE combine_loop_cascade(_, _, _)
combine_loop_cascade(tiles, current_tile, merge_score) ==
    IF current_tile < Len(tiles) - 1
    THEN IF tiles[current_tile + 1] = tiles[current_tile + 2]
         THEN LET doubled == tiles[current_tile + 1] * 2
                  merged  == Pop([tiles EXCEPT ![current_tile + 1] = doubled],
                                 current_tile + 1)
              IN  combine_loop_cascade(merged, current_tile, merge_score + doubled)
         ELSE combine_loop_cascade(tiles, current_tile + 1, merge_score)
    ELSE [tiles |-> tiles, merge_score |-> merge_score]

(* The while loop: current_tile counts from 0. *)
RECURSIVE combine_loop(_, _, _)
combine_loop(tiles, current_tile, merge_score) ==
    IF current_tile < Len(tiles) - 1
    THEN IF tiles[current_tile + 1] = tiles[current_tile + 2]
         THEN LET doubled == merged_value(tiles[current_tile + 1])
                  merged  == Pop([tiles EXCEPT ![current_tile + 1] = doubled],
                                 current_tile + 1)
              IN  combine_loop(merged, current_tile + 1, merge_score + doubled)
         ELSE combine_loop(tiles, current_tile + 1, merge_score)
    ELSE [tiles |-> tiles, merge_score |-> merge_score]

(* A faulty variant: the flag says whether tiles merged, not whether the
   line changed. *)
combine_tiles_flag_if_merged(tiles, right) ==
    LET packed == IF right THEN NonZero(Reversed(tiles)) ELSE NonZero(tiles)
        looped == combine_loop(packed, 0, 0)
        padded == looped.tiles \o Zeros(Max(0, COLS - Len(looped.tiles)))
        result == IF right THEN Reversed(padded) ELSE padded
    IN  [tiles |-> result, merge_score |-> looped.merge_score,
         move |-> (looped.merge_score > 0)]

(* A faulty variant: the line is compared with the old one before it is
   reversed back. *)
combine_tiles_compared_before_reverse(tiles, right) ==
    LET packed == IF right THEN NonZero(Reversed(tiles)) ELSE NonZero(tiles)
        looped == combine_loop(packed, 0, 0)
        padded == looped.tiles \o Zeros(Max(0, COLS - Len(looped.tiles)))
        result == IF right THEN Reversed(padded) ELSE padded
    IN  [tiles |-> result, merge_score |-> looped.merge_score,
         move |-> (tiles # padded)]

(* A faulty variant: a line combined to the right is not reversed back. *)
combine_tiles_not_reversed_back(tiles, right) ==
    LET packed == IF right THEN NonZero(Reversed(tiles)) ELSE NonZero(tiles)
        looped == combine_loop(packed, 0, 0)
        padded == looped.tiles \o Zeros(Max(0, COLS - Len(looped.tiles)))
    IN  [tiles |-> padded, merge_score |-> looped.merge_score,
         move |-> (tiles # padded)]

combine_tiles(tiles, right) ==
    LET old_tiles == tiles
        packed    == IF right THEN NonZero(Reversed(tiles)) ELSE NonZero(tiles)
        looped    == combine_loop(packed, 0, 0)
        padded    == looped.tiles \o Zeros(Max(0, COLS - Len(looped.tiles)))
        result    == IF right THEN Reversed(padded) ELSE padded
    IN  [tiles |-> result, merge_score |-> looped.merge_score,
         move |-> (old_tiles # result)]

----------------------------------------------------------------------------
(* Game.__move_tiles *)

Vertical(direction) == direction = UP \/ direction = DOWN

(* A faulty variant: down is not combined as right. *)
combine_right_only_right(direction) == direction = RIGHT

(* Down is combined as right and up is combined as left. *)
combine_right(direction) == direction = RIGHT \/ direction = DOWN

(* The columns, read before anything is written. *)
Columns(g) == [x \in 1..COLS |-> [y \in 1..ROWS |-> g[y][x]]]

(* A faulty variant: every tile of the line is written one cell further
   along the line, the last one beyond the grid. *)
RECURSIVE write_line_one_further(_, _, _, _, _)
write_line_one_further(g, direction, merge_index, combined_tiles, merged_tile_index) ==
    IF merged_tile_index >= Len(combined_tiles)
    THEN [grid |-> g, raised |-> FALSE]
    ELSE LET value == combined_tiles[merged_tile_index + 1]
             set   == IF Vertical(direction)
                      THEN set_tile(g, merge_index, merged_tile_index + 1, value)
                      ELSE set_tile(g, merged_tile_index + 1, merge_index, value)
         IN  IF set.raised
             THEN set
             ELSE write_line_one_further(set.grid, direction, merge_index,
                                         combined_tiles, merged_tile_index + 1)

(* The inner for loop: writes combined_tiles[merged_tile_index ..] back. *)
RECURSIVE write_line(_, _, _, _, _)
write_line(g, direction, merge_index, combined_tiles, merged_tile_index) ==
    IF merged_tile_index >= Len(combined_tiles)
    THEN [grid |-> g, raised |-> FALSE]
    ELSE LET value == combined_tiles[merged_tile_index + 1]
             set   == IF Vertical(direction)
                      THEN set_tile(g, merge_index, merged_tile_index, value)
                      ELSE set_tile(g, merged_tile_index, merge_index, value)
         IN  IF set.raised
             THEN set
             ELSE write_line(set.grid, direction, merge_index, combined_tiles,
                             merged_tile_index + 1)

(* The outer for loop over the lines `order` still names (indices from 0).
   For LEFT and RIGHT to_combine is the grid itself, so a line is the row as
   it is when its turn comes; for UP and DOWN it is the column copied before
   the loop started. *)
RECURSIVE move_loop(_, _, _, _, _, _)
move_loop(g, to_combine, direction, order, move_score, was_moved) ==
    IF order = <<>>
    THEN [grid |-> g, move_score |-> move_score, moved |-> was_moved,
          raised |-> FALSE]
    ELSE LET merge_index == Head(order)
             line     == IF Vertical(direction)
                         THEN to_combine[merge_index + 1]
                         ELSE g[merge_index + 1]
             combined == combine_tiles(line, combine_right(direction))
             written  == write_line(g, direction, merge_index, combined.tiles, 0)
         IN  IF written.raised
             THEN [grid |-> written.grid, move_score |-> move_score,
                   moved |-> was_moved, raised |-> TRUE]
             ELSE move_loop(written.grid, to_combine, direction, Tail(order),
                            move_score + combined.merge_score,
                            was_moved \/ combined.move)

(* range(len(to_combine)) *)
LineOrder(n) == [i \in 1..n |-> i - 1]

move_tiles_in(g, direction, order) ==
    move_loop(g, IF Vertical(direction) THEN Columns(g) ELSE g, direction,
              order, 0, FALSE)

move_tiles(g, direction) ==
    move_tiles_in(g, direction,
                  LineOrder(IF Vertical(direction) THEN COLS ELSE ROWS))

----------------------------------------------------------------------------
(* Game.__place_random_tile *)

(* The (x, y) of every cell in the order of the two for loops. *)
AllCoords == [i \in 1..(ROWS * COLS) |-> <<(i - 1) % COLS, (i - 1) \div COLS>>]

(* A faulty variant: every cell is a candidate, empty or not. *)
potential_coords_all(g) == AllCoords

potential_coords(g) == SelectSeq(AllCoords, LAMBDA c : g[c[2] + 1][c[1] + 1] = 0)

added_value(randint) == IF randint > 0 THEN 2 ELSE 4

(* A faulty variant: the return value is bool(len(potential_coords)). *)
place_random_tile_counts_before(g, randint, choice) ==
    LET coords == SelectSeq(AllCoords, LAMBDA c : g[c[2] + 1][c[1] + 1] = 0)
    IN  IF coords = <<>>
        THEN [grid |-> g, ret |-> FALSE, raised |-> FALSE]
        ELSE LET xy  == coords[choice + 1]
                 set == set_tile(g, xy[1], xy[2], IF randint > 0 THEN 2 ELSE 4)
             IN  [grid |-> set.grid, ret |-> (Len(coords) # 0),
                  raised |-> set.raised]

(* A faulty variant: the tile is set at (y, x) instead of (x, y). *)
place_random_tile_transposed(g, randint, choice) ==
    LET coords == SelectSeq(AllCoords, LAMBDA c : g[c[2] + 1][c[1] + 1] = 0)
    IN  IF coords = <<>>
        THEN [grid |-> g, ret |-> FALSE, raised |-> FALSE]
        ELSE LET xy  == coords[choice + 1]
                 set == set_tile(g, xy[2], xy[1], IF randint > 0 THEN 2 ELSE 4)
             IN  [grid |-> set.grid, ret |-> (Len(coords) - 1 # 0),
                  raised |-> set.raised]

(* randint: the outcome of randint(0, 9); choice: the index (from 0) that
   choice() picks in potential_coords. *)
place_random_tile(g, randint, choice) ==
    LET coords == potential_coords(g)
    IN  IF coords = <<>>
        THEN [grid |-> g, ret |-> FALSE, raised |-> FALSE]
        ELSE LET xy  == coords[choice + 1]
                 set == set_tile(g, xy[1], xy[2], added_value(randint))
             IN  [grid |-> set.grid, ret |-> (Len(coords) - 1 # 0),
                  raised |-> set.raised]

(* What choice() can return for this grid. *)
Choices(g) == 0..Max(0, Len(potential_coords(g)) - 1)

----------------------------------------------------------------------------
(* Game.__check_game_over *)

(* A faulty variant: only the rows are scanned for an equal pair. *)
check_game_over_rows_only(g) ==
    \A y \in 0..(ROWS - 1) : \A x \in 0..(COLS - 2) :
       g[y + 1][x + 1] # g[y + 1][x + 2]

check_game_over(g) ==
    /\ \A y \in 0..(ROWS - 1) : \A x \in 0..(COLS - 2) :
          g[y + 1][x + 1] # g[y + 1][x + 2]
    /\ \A y \in 0..(ROWS - 2) : \A x \in 0..(COLS - 1) :
          g[y + 1][x + 1] # g[y + 2][x + 1]

----------------------------------------------------------------------------
(* Game.make_move *)

(* A faulty variant: the spawner runs whether or not anything moved. *)
make_move_rest_spawns_always(mt, randint, choice) ==
    IF mt.raised
    THEN [grid |-> mt.grid, raised |-> TRUE, ret |-> None]
    ELSE LET sp == place_random_tile(mt.grid, randint, choice)
         IN  IF ~sp.ret
             THEN [grid |-> sp.grid, raised |-> sp.raised,
                   ret |-> <<mt.move_score, check_game_over(sp.grid)>>]
             ELSE [grid |-> sp.grid, raised |-> sp.raised,
                   ret |-> <<mt.move_score, FALSE>>]

(* A faulty variant: no tile is spawned after a move that moved tiles. *)
make_move_rest_without_spawn(mt, randint, choice) ==
    IF mt.raised
    THEN [grid |-> mt.grid, raised |-> TRUE, ret |-> None]
    ELSE IF mt.moved
         THEN IF potential_coords(mt.grid) = <<>>
              THEN [grid |-> mt.grid, raised |-> FALSE,
                    ret |-> <<mt.move_score, check_game_over(mt.grid)>>]
              ELSE [grid |-> mt.grid, raised |-> FALSE,
                    ret |-> <<mt.move_score, FALSE>>]
         ELSE [grid |-> mt.grid, raised |-> FALSE,
               ret |-> <<mt.move_score, FALSE>>]

(* A faulty variant: the game-over check also runs after a move that moved
   nothing. *)
make_move_rest_checks_always(mt, randint, choice) ==
    IF mt.raised
    THEN [grid |-> mt.grid, raised |-> TRUE, ret |-> None]
    ELSE IF mt.moved
         THEN LET sp == place_random_tile(mt.grid, randint, choice)
              IN  IF sp.raised
                  THEN [grid |-> sp.grid, raised |-> TRUE, ret |-> None]
                  ELSE IF ~sp.ret
                       THEN [grid |-> sp.grid, raised |-> FALSE,
                             ret |-> <<mt.move_score, check_game_over(sp.grid)>>]
                       ELSE [grid |-> sp.grid, raised |-> FALSE,
                             ret |-> <<mt.move_score, FALSE>>]
         ELSE [grid |-> mt.grid, raised |-> FALSE,
               ret |-> <<mt.move_score,
                         potential_coords(mt.grid) = <<>>
                            /\ check_game_over(mt.grid)>>]

(* Lines 73-80: what make_move does with the (move_score, moved) that
   __move_tiles returned, mt being that call's outcome. *)
make_move_rest(mt, randint, choice) ==
    IF mt.raised
    THEN [grid |-> mt.grid, raised |-> TRUE, ret |-> None]
    ELSE IF mt.moved
         THEN LET sp == place_random_tile(mt.grid, randint, choice)
              IN  IF sp.raised
                  THEN [grid |-> sp.grid, raised |-> TRUE, ret |-> None]
                  ELSE IF ~sp.ret
                       THEN [grid |-> sp.grid, raised |-> FALSE,
                             ret |-> <<mt.move_score, check_game_over(sp.grid)>>]
                       ELSE [grid |-> sp.grid, raised |-> FALSE,
                             ret |-> <<mt.move_score, FALSE>>]
         ELSE [grid |-> mt.grid, raised |-> FALSE,
               ret |-> <<mt.move_score, FALSE>>]

make_move(g, direction, randint, choice) ==
    make_move_rest(move_tiles(g, direction), randint, choice)

----------------------------------------------------------------------------
(* Game.__init__ *)

(* A faulty variant: the second tile is placed on the empty grid again, the
   first one being lost. *)
new_fresh_second_on_empty(randint1, choice1, randint2, choice2) ==
    place_random_tile(EmptyGrid, randint2, choice2).grid

(* Game(): the empty grid and two calls of __place_random_tile. *)
new_fresh(randint1, choice1, randint2, choice2) ==
    place_random_tile(place_random_tile(EmptyGrid, randint1, choice1).grid,
                      randint2, choice2).grid

(* A faulty variant: only the number of rows is checked. *)
new_raises_rows_only(grid) == Len(grid) # ROWS

(* Game(grid): whether the dimension check raises. *)
new_raises(grid) ==
    Len(grid) # ROWS \/ \E i \in 1..Len(grid) : Len(grid[i]) # COLS

----------------------------------------------------------------------------
(* Game.get_grid: returns the attribute, that is the reference it holds. *)

get_grid(self) == self

(* Game(grid), line 43: the attribute is bound to the caller's list. *)
new_grid(grid_object) == grid_object

----------------------------------------------------------------------------
(* The engine's grid, through its reference. *)

Grid == heap[self_grid]

(* Grids handed to Game(grid): their rows come from this pool, which holds
   two full rows without an equal pair, a row with a gap and a row with an
   equal pair, so that full grids, grids one spawn from full, merges along
   rows and columns and blocked moves all occur. *)
RowPool == { <<2, 4, 2, 4>>, <<4, 2, 4, 2>>, <<0, 4, 2, 4>>, <<2, 2, 4, 8>> }

PoolGrids == [1..ROWS -> RowPool]

(* The grids games are played from: the two full grids whose rows alternate
   between the first two rows of the pool, on which no move is possible, with
   at most one row replaced by another row of the pool. *)
AlternatingRow(y, first) ==
    IF (y + first) % 2 = 0 THEN <<2, 4, 2, 4>> ELSE <<4, 2, 4, 2>>

SuppliedGrids ==
    { g \in PoolGrids :
        \E first \in {0, 1} :
           Cardinality({ y \in 1..ROWS : g[y] # AlternatingRow(y, first) }) <= 1 }

(* The grids games are played to their end from: late in a game, every cell
   holding a tile of its own, bigger than any tile the game can still
   build, but for up to MaxPlayFree cells of the last row that are empty or
   hold a 2 or 4, one of them at least being empty. *)
LateTile(y, x) == Pow2((y - 1) * COLS + x + MaxPlayFree + 1)

PlayGrids ==
    UNION { { [y \in 1..ROWS |-> [x \in 1..COLS |->
                  IF <<y, x>> \in DOMAIN small THEN small[<<y, x>>]
                  ELSE LateTile(y, x)]] :
              small \in { t \in [free -> {0, 2, 4}] :
                             \E c \in free : t[c] = 0 } } :
            free \in { f \in SUBSET ({ROWS} \X (1..COLS)) :
                          Cardinality(f) \in 1..MaxPlayFree } }

(* Lists of rows of the wrong and the right dimensions, for Game(grid); the
   tiles follow one pattern, 2, 3, 0, 4, 0, 4, ..., so a row of the right
   length holds an odd number. *)
PatternRow(n) ==
    [i \in 1..n |-> IF i = 1 THEN 2 ELSE IF i = 2 THEN 3
                    ELSE IF i % 2 = 1 THEN 0 ELSE 4]

DimRows == { PatternRow(n) : n \in Max(0, COLS - DimSlack)..(COLS + DimSlack) }

DimGrids ==
    UNION { [1..n -> DimRows] : n \in Max(0, ROWS - DimSlack)..(ROWS + DimSlack) }

(* The lines handed to __combine_tiles. *)
Lines == [1..COLS -> TileValues]

(* The columns __move_tiles hands to __combine_tiles when the grid is
   configured with n rows: lines of n tiles. *)
ConfiguredRows == Max(1, ROWS - LineSlack)..(ROWS + LineSlack)

ColumnLines == UNION { [1..n -> TileValues] : n \in ConfiguredRows }

Idle ==
    /\ ret = None
    /\ raised = FALSE
    /\ pre = NoGrid
    /\ slid = NoGrid
    /\ moved = FALSE
    /\ nmoves = 0
    /\ nwrites = 0
    /\ game_overs = 0

(* The states Game() can construct. *)
InitFresh ==
    /\ \E r1 \in RandintDraws, r2 \in RandintDraws :
       \E c1 \in Choices(EmptyGrid) :
       \E c2 \in Choices(place_random_tile(EmptyGrid, r1, c1).grid) :
          heap = [o \in Objects |->
                    IF o = EngineList THEN new_fresh(r1, c1, r2, c2) ELSE NoGrid]
    /\ self_grid = EngineList
    /\ held = None
    /\ origin = "fresh"
    /\ given = NoGrid
    /\ op = "new"
    /\ arg = None
    /\ Idle

(* The states Game(grid) can construct: the caller still holds its list. *)
Supplied(grids) ==
    /\ \E g \in grids :
          /\ heap = [o \in Objects |-> IF o = CallerList THEN g ELSE NoGrid]
          /\ given = g
          /\ arg = g
    /\ op = "new"
    /\ self_grid = new_grid(CallerList)
    /\ held = CallerList
    /\ origin = "supplied"
    /\ Idle

InitSupplied == Supplied(SuppliedGrids)

InitPool == Supplied(PoolGrids)

(* A game in play: Game(grid) on a late grid and the player's first
   make_move, in a direction that changes the grid. *)
InitPlay ==
    /\ \E g \in PlayGrids, direction \in Direction :
       \E mt \in {move_tiles(g, direction)} :
       \E randint \in RandintDraws, choice \in Choices(mt.grid) :
       \E mm \in {make_move_rest(mt, randint, choice)} :
          /\ mt.moved
          /\ ~mm.raised
          /\ heap = [o \in Objects |-> IF o = CallerList THEN mm.grid ELSE NoGrid]
          /\ given = g
          /\ pre = g
          /\ arg = direction
          /\ ret = mm.ret
          /\ slid = mt.grid
          /\ moved = mt.moved
          /\ game_overs = IF mm.ret[2] THEN 1 ELSE 0
    /\ self_grid = new_grid(CallerList)
    /\ held = CallerList
    /\ origin = "supplied"
    /\ op = "make_move"
    /\ raised = FALSE
    /\ nmoves = 1
    /\ nwrites = 0

(* Before Game(grid): the caller has built a list of rows. *)
InitCaller ==
    /\ \E g \in DimGrids :
          heap = [o \in Objects |-> IF o = CallerList THEN g ELSE NoGrid]
    /\ self_grid = None
    /\ held = CallerList
    /\ origin = "none"
    /\ given = NoGrid
    /\ op = "list"
    /\ arg = None
    /\ Idle

(* Before a call of __combine_tiles: arg is (tiles, right). *)
InitLine ==
    /\ heap = [o \in Objects |-> NoGrid]
    /\ self_grid = None
    /\ held = None
    /\ origin = "none"
    /\ given = NoGrid
    /\ op = "line"
    /\ \E tiles \in Lines, right \in BOOLEAN : arg = <<tiles, right>>
    /\ ret = None
    /\ raised = FALSE
    /\ pre = NoGrid
    /\ slid = NoGrid
    /\ moved = FALSE
    /\ nmoves = 0
    /\ nwrites = 0
    /\ game_overs = 0

(* Before a call of __combine_tiles on a column of a grid of any configured
   number of rows. *)
InitColumnLine ==
    /\ heap = [o \in Objects |-> NoGrid]
    /\ self_grid = None
    /\ held = None
    /\ origin = "none"
    /\ given = NoGrid
    /\ op = "line"
    /\ \E tiles \in ColumnLines, right \in BOOLEAN : arg = <<tiles, right>>
    /\ ret = None
    /\ raised = FALSE
    /\ pre = NoGrid
    /\ slid = NoGrid
    /\ moved = FALSE
    /\ nmoves = 0
    /\ nwrites = 0
    /\ game_overs = 0

----------------------------------------------------------------------------
(* Operations *)

(* One call of make_move(direction).  The random draws are made only when
   the spawner runs, and choice() only when there is an empty cell to choose. *)
MakeMoveIn(direction) ==
    /\ self_grid # None
    /\ ~raised
    /\ \E mt \in {move_tiles(Grid, direction)} :
       \E randint \in (IF mt.moved /\ ~mt.raised THEN RandintDraws ELSE {0}) :
       \E choice \in (IF mt.moved /\ ~mt.raised THEN Choices(mt.grid) ELSE {0}) :
       \E mm \in {make_move_rest(mt, randint, choice)} :
          /\ heap' = [heap EXCEPT ![self_grid] = mm.grid]
          /\ arg' = direction
          /\ ret' = mm.ret
          /\ raised' = mm.raised
          /\ slid' = mt.grid
          /\ moved' = mt.moved
          /\ game_overs' = IF ~mm.raised /\ mm.ret[2] THEN game_overs + 1
                           ELSE game_overs
    /\ pre' = Grid
    /\ op' = "make_move"
    /\ nmoves' = nmoves + 1
    /\ UNCHANGED <<self_grid, held, origin, given, nwrites>>

(* One call of make_move, in any direction. *)
MakeMove ==
    /\ nmoves < (IF origin = "fresh" THEN MaxFreshMoves ELSE MaxMoves)
    /\ \E direction \in Direction : MakeMoveIn(direction)

(* The player who calls make_move in a direction that changes the grid as
   long as there is one. *)
PlayerMove ==
    /\ self_grid # None
    /\ \E direction \in Direction :
          /\ move_tiles(Grid, direction).moved
          /\ MakeMoveIn(direction)

(* One call of __set_tile(x, y, value) on the engine's grid. *)
SetCoords == (0 - SetSlack)..(Max(ROWS, COLS) - 1 + SetSlack)

SetValues == (0 - SetSlack)..(Pow2(MaxExp) + SetSlack)

SetTile ==
    /\ self_grid # None
    /\ ~raised
    /\ op = "new"
    /\ \E x \in SetCoords, y \in SetCoords, value \in SetValues :
       \E set \in {set_tile(Grid, x, y, value)} :
          /\ heap' = [heap EXCEPT ![self_grid] = set.grid]
          /\ raised' = set.raised
          /\ arg' = <<x, y, value>>
    /\ pre' = Grid
    /\ op' = "set_tile"
    /\ ret' = None
    /\ UNCHANGED <<self_grid, held, origin, given, slid, moved, nmoves, nwrites,
                   game_overs>>

(* One call of __place_random_tile on the engine's grid. *)
PlaceRandomTile ==
    /\ self_grid # None
    /\ ~raised
    /\ \E randint \in RandintDraws, choice \in Choices(Grid) :
       \E sp \in {place_random_tile(Grid, randint, choice)} :
          /\ heap' = [heap EXCEPT ![self_grid] = sp.grid]
          /\ ret' = sp.ret
          /\ raised' = sp.raised
    /\ pre' = Grid
    /\ op' = "place_random_tile"
    /\ arg' = None
    /\ UNCHANGED <<self_grid, held, origin, given, slid, moved, nmoves, nwrites,
                   game_overs>>

(* One call of __combine_tiles on the line drawn. *)
CombineTiles ==
    /\ op = "line"
    /\ ret' = combine_tiles(arg[1], arg[2])
    /\ op' = "combine_tiles"
    /\ UNCHANGED <<heap, self_grid, held, origin, given, arg, raised, pre, slid,
                   moved, nmoves, nwrites, game_overs>>

(* Game(grid) on the list the caller holds. *)
New ==
    /\ self_grid = None
    /\ ~raised
    /\ held # None
    /\ IF new_raises(heap[held])
       THEN /\ raised' = TRUE
            /\ UNCHANGED <<self_grid, origin, given>>
       ELSE /\ raised' = FALSE
            /\ self_grid' = new_grid(held)
            /\ origin' = "supplied"
            /\ given' = heap[held]
    /\ op' = "new"
    /\ arg' = heap[held]
    /\ ret' = None
    /\ pre' = NoGrid
    /\ UNCHANGED <<heap, held, slid, moved, nmoves, nwrites, game_overs>>

(* get_grid(): the caller keeps what it returns. *)
GetGrid ==
    /\ self_grid # None
    /\ ~raised
    /\ op # "get_grid"
    /\ ret' = get_grid(self_grid)
    /\ held' = get_grid(self_grid)
    /\ op' = "get_grid"
    /\ arg' = None
    /\ pre' = Grid
    /\ UNCHANGED <<heap, self_grid, origin, given, raised, slid, moved, nmoves,
                   nwrites, game_overs>>

(* The caller of the engine assigns to a cell of the list it holds, the one
   it passed to Game(grid) or the one get_grid returned: held[y][x] = value. *)
WriteValues == {0, 2}

CallerWrite ==
    /\ held # None
    /\ self_grid # None
    /\ ~raised
    /\ nwrites < MaxWrites
    /\ \E y \in 1..ROWS, x \in 1..COLS, value \in WriteValues :
          /\ heap[held][y][x] # value
          /\ heap' = [heap EXCEPT ![held][y][x] = value]
          /\ arg' = <<x - 1, y - 1, value>>
    /\ op' = "caller_write"
    /\ ret' = None
    /\ pre' = Grid
    /\ nwrites' = nwrites + 1
    /\ UNCHANGED <<self_grid, held, origin, given, raised, slid, moved, nmoves,
                   game_overs>>

----------------------------------------------------------------------------
(* Specifications *)

(* Play from a supplied grid: Game(grid), then make_move calls. *)
Init == InitSupplied

Next == MakeMove

Spec == Init /\ [][Next]_vars

(* Play from a new game: Game(), then make_move calls. *)
NextFresh == MakeMove

SpecFresh == InitFresh /\ [][NextFresh]_vars

(* The line combiner on every line. *)
NextCombine == CombineTiles

SpecCombine == InitLine /\ [][NextCombine]_vars

(* The line combiner on the columns of grids of any configured height. *)
NextColumnLine == CombineTiles

SpecColumnLine == InitColumnLine /\ [][NextColumnLine]_vars

(* A game played to its end by a player who never stops calling make_move
   while the game is not over: the caller's loop reads a move and calls
   make_move again and again (lines 279-289) until make_move returns game
   over.  The game is not over while the grid has an empty cell or two equal
   neighbours; every call is counted in nmoves. *)
NextPlay == PlayerMove

NotOver(g) == potential_coords(g) # <<>> \/ ~check_game_over(g)

PlayerCalls == NotOver(Grid) /\ nmoves' = nmoves + 1

SpecPlay == InitPlay /\ [][NextPlay]_vars /\ WF_nmoves(PlayerCalls)

(* The tile setter on its own. *)
NextSetTile == SetTile

SpecSetTile == InitSupplied /\ [][NextSetTile]_vars

(* The spawner on its own, called until the grid is full and once more. *)
NextSpawn == PlaceRandomTile

SpecSpawn == InitPool /\ [][NextSpawn]_vars

(* Construction from a supplied list, then get_grid. *)
NextNew == New \/ GetGrid

SpecNew == InitCaller /\ [][NextNew]_vars

(* The caller and the engine side by side: the caller reads the grid with
   get_grid, and either writes to the list it holds or calls make_move. *)
NextCaller ==
    \/ GetGrid
    \/ (nmoves = 0 /\ CallerWrite)
    \/ (nwrites = 0 /\ MakeMove)

SpecCaller == (InitFresh \/ InitSupplied) /\ [][NextCaller]_vars

----------------------------------------------------------------------------
(* Vocabulary of the properties *)

Cells == (1..ROWS) \X (1..COLS)

EmptyCells(g) == { c \in Cells : g[c[1]][c[2]] = 0 }

RowOf(g, y) == g[y]

ColumnOf(g, x) == [y \in 1..ROWS |-> g[y][x]]

(* The lines a move in this direction slides: columns read top to bottom for
   UP and DOWN, rows read left to right for LEFT and RIGHT. *)
LineCount(direction) == IF direction \in {UP, DOWN} THEN COLS ELSE ROWS

LineOf(g, direction, i) ==
    IF direction \in {UP, DOWN} THEN ColumnOf(g, i) ELSE RowOf(g, i)

TowardFarEnd(direction) == direction \in {RIGHT, DOWN}

(* What the line combiner returns for line i of g in this direction. *)
Combined(g, direction, i) ==
    combine_tiles(LineOf(g, direction, i), TowardFarEnd(direction))

(* No line changes when slid and merged in this direction. *)
Blocked(g, direction) ==
    \A i \in 1..LineCount(direction) :
       Combined(g, direction, i).tiles = LineOf(g, direction, i)

RECURSIVE SumTo(_, _)
SumTo(f(_), n) == IF n = 0 THEN 0 ELSE f(n) + SumTo(f, n - 1)

RECURSIVE IsPowerOfTwo(_)
IsPowerOfTwo(v) == v = 1 \/ (v > 1 /\ v % 2 = 0 /\ IsPowerOfTwo(v \div 2))

Adjacent(c, d) ==
    \/ c[1] = d[1] /\ (c[2] = d[2] + 1 \/ d[2] = c[2] + 1)
    \/ c[2] = d[2] /\ (c[1] = d[1] + 1 \/ d[1] = c[1] + 1)

NoEqualNeighbours(g) ==
    \A c \in Cells, d \in Cells : Adjacent(c, d) => g[c[1]][c[2]] # g[d[1]][d[2]]

Moved == op = "make_move" /\ ~raised

----------------------------------------------------------------------------
(* C1: a make_move in a direction in which no line of the grid changes
   returns score 0 and game-over false, spawns nothing and leaves every cell
   as it was. *)
C1_BlockedMoveIsNoOp ==
    (op = "make_move" /\ Blocked(pre, arg))
        => (~raised /\ ret = <<0, FALSE>> /\ Grid = pre)

(* A blocked move on a grid that had room for a new tile. *)
C1_Witness ==
    /\ op = "make_move"
    /\ Blocked(pre, arg)
    /\ EmptyCells(pre) # {}
    /\ ~raised
    /\ ret = <<0, FALSE>>

(* C2: in every state reached from Game() by make_move calls, every cell is 0
   or a positive power of 2. *)
C2_TilesArePowersOfTwo ==
    (self_grid # None /\ origin = "fresh")
        => \A c \in Cells :
              \/ Grid[c[1]][c[2]] = 0
              \/ (Grid[c[1]][c[2]] > 1 /\ IsPowerOfTwo(Grid[c[1]][c[2]]))

(* A new game whose two 4s merged into an 8 and which got its new tile. *)
C2_Witness ==
    /\ origin = "fresh"
    /\ Moved
    /\ ret[1] = 8
    /\ \E c \in Cells : Grid[c[1]][c[2]] = 8
    /\ Cardinality(Cells \ EmptyCells(Grid)) = 2

(* C3: make_move returns game-over true exactly when the move changed the
   grid and the grid, after the spawn, has no empty cell and no two adjacent
   cells with equal values. *)
C3_GameOverIff ==
    Moved => (ret[2] <=> /\ slid # pre
                         /\ EmptyCells(Grid) = {}
                         /\ NoEqualNeighbours(Grid))

(* A move that filled the grid and was reported as the end of the game. *)
C3_Witness ==
    /\ Moved
    /\ ret[2]
    /\ EmptyCells(pre) # {}
    /\ EmptyCells(Grid) = {}

(* C4: combining a line toward the near end removes the zeros, merges each
   pair of equal neighbours once from the near end on, a merged tile never
   merging again, and pads with zeros; the score is the sum of the merged
   tiles.  [2,2,2,2] gives [4,4,0,0] with 8, [2,2,4,0] gives [4,4,0,0] with 4. *)
RECURSIVE WithoutZeros(_)
WithoutZeros(s) ==
    IF s = <<>> THEN <<>>
    ELSE IF Head(s) = 0 THEN WithoutZeros(Tail(s))
         ELSE <<Head(s)>> \o WithoutZeros(Tail(s))

RECURSIVE MergedOnce(_)
MergedOnce(s) ==
    IF Len(s) < 2 THEN s
    ELSE IF s[1] = s[2]
         THEN <<s[1] + s[2]>> \o MergedOnce(SubSeq(s, 3, Len(s)))
         ELSE <<s[1]>> \o MergedOnce(Tail(s))

RECURSIVE MergeGain(_)
MergeGain(s) ==
    IF Len(s) < 2 THEN 0
    ELSE IF s[1] = s[2]
         THEN s[1] + s[2] + MergeGain(SubSeq(s, 3, Len(s)))
         ELSE MergeGain(Tail(s))

PaddedTo(s, n) == [i \in 1..n |-> IF i <= Len(s) THEN s[i] ELSE 0]

C4_CombineNearEnd ==
    (op = "combine_tiles" /\ ~arg[2])
        => /\ ret.tiles = PaddedTo(MergedOnce(WithoutZeros(arg[1])), Len(arg[1]))
           /\ ret.merge_score = MergeGain(WithoutZeros(arg[1]))
           /\ arg[1] = <<2, 2, 2, 2>>
                 => (ret.tiles = <<4, 4, 0, 0>> /\ ret.merge_score = 8)
           /\ arg[1] = <<2, 2, 4, 0>>
                 => (ret.tiles = <<4, 4, 0, 0>> /\ ret.merge_score = 4)

(* [2,2,4,0] combined toward the near end: the new 4 does not merge with the
   old one. *)
C4_Witness ==
    /\ op = "combine_tiles"
    /\ arg = << <<2, 2, 4, 0>>, FALSE >>
    /\ ret.tiles = <<4, 4, 0, 0>>
    /\ ret.merge_score = 4

(* C5: the slide/merge phase replaces every line of the grid by the line
   combiner's result for it, toward the far end for RIGHT and DOWN and the
   near end for UP and LEFT, written back where it was read; the score is
   the sum of the lines' scores, moved the OR of their changed flags, and the
   order in which the lines are processed makes no difference (LineOrders:
   the lines taken backwards, and taken from the second on with the first
   last). *)
LineOrders(n) ==
    { [i \in 1..n |-> n - i], [i \in 1..n |-> i % n] }

C5_SlidePhaseLinewise ==
    Moved =>
        LET n == LineCount(arg)
            Score(i) == Combined(pre, arg, i).merge_score
        IN  /\ \A i \in 1..n : LineOf(slid, arg, i) = Combined(pre, arg, i).tiles
            /\ ret[1] = SumTo(Score, n)
            /\ moved = (\E i \in 1..n : Combined(pre, arg, i).move)
            /\ \A order \in LineOrders(n) :
                  move_tiles_in(pre, arg, order) =
                     [grid |-> slid, move_score |-> ret[1], moved |-> moved,
                      raised |-> FALSE]

(* A move down that merged tiles of a column. *)
C5_Witness ==
    /\ Moved
    /\ arg = DOWN
    /\ moved
    /\ ret[1] > 0
    /\ \E x \in 1..COLS : ColumnOf(slid, x)[1] = 0 /\ ColumnOf(pre, x)[1] # 0

(* C6, as claimed: after a make_move that changed the grid, the number of
   empty cells is one less than before the move. *)
C6_OneLessThanBeforeMove ==
    (Moved /\ moved)
        => Cardinality(EmptyCells(Grid)) = Cardinality(EmptyCells(pre)) - 1

(* C6, amended: after a make_move that changed the grid, the number of empty
   cells is one less than it was after the slide/merge phase of that move,
   just before the spawn; it is one less than before the move exactly when
   the move merged nothing (score 0), and otherwise not less than before. *)
C6_OneLessThanAfterSlide ==
    (Moved /\ moved)
        => /\ Cardinality(EmptyCells(Grid)) = Cardinality(EmptyCells(slid)) - 1
           /\ (Cardinality(EmptyCells(Grid)) = Cardinality(EmptyCells(pre)) - 1)
                 <=> (ret[1] = 0)
           /\ ret[1] > 0
                 => Cardinality(EmptyCells(Grid)) >= Cardinality(EmptyCells(pre))

(* A move that merged tiles, so that the grid has as many empty cells after
   the spawn as before the move. *)
C6_Witness ==
    /\ Moved
    /\ moved
    /\ ret[1] > 0
    /\ Cardinality(EmptyCells(Grid)) = Cardinality(EmptyCells(pre))

(* C7: the spawner, when a cell is empty, changes exactly one cell, which was
   empty and becomes 2 or 4; when no cell is empty it changes nothing. *)
C7_SpawnFrame ==
    (op = "place_random_tile" /\ ~raised)
        => IF EmptyCells(pre) = {}
           THEN Grid = pre
           ELSE \E c \in EmptyCells(pre) :
                   /\ Grid[c[1]][c[2]] \in {2, 4}
                   /\ \A d \in Cells \ {c} : Grid[d[1]][d[2]] = pre[d[1]][d[2]]

(* A 4 spawned on a grid that had several empty cells. *)
C7_Witness ==
    /\ op = "place_random_tile"
    /\ Cardinality(EmptyCells(pre)) >= 2
    /\ \E c \in EmptyCells(pre) : Grid[c[1]][c[2]] = 4

(* C8: the spawner returns true exactly when the grid had more than one empty
   cell before, that is when an empty cell remains after; false both when it
   filled the last empty cell and when there was none. *)
C8_SpawnReturn ==
    (op = "place_random_tile" /\ ~raised)
        => /\ ret <=> (Cardinality(EmptyCells(pre)) > 1)
           /\ ret <=> (EmptyCells(Grid) # {})
           /\ EmptyCells(pre) = {} => ~ret

(* The spawner filled the last empty cell and returned false. *)
C8_Witness ==
    /\ op = "place_random_tile"
    /\ Cardinality(EmptyCells(pre)) = 1
    /\ EmptyCells(Grid) = {}
    /\ ret = FALSE

(* C9: the engine's grid is never aliased: a write of the caller to the grid
   object it passed to Game(grid) or got from get_grid does not change the
   engine's grid, and a make_move does not change a grid object the caller
   holds. *)
C9_GridNotAliased ==
    [][ /\ op' = "caller_write" => heap'[self_grid] = heap[self_grid]
        /\ (op' = "make_move" /\ held # None) => heap'[held] = heap[held]
      ]_vars

(* C10: Game(grid) raises exactly when the grid does not have ROWS rows of
   COLS tiles each; otherwise it succeeds, spawns nothing, and get_grid
   before any move returns a grid equal to the one given. *)
RightDimensions(g) ==
    /\ DOMAIN g = 1..ROWS
    /\ \A y \in 1..ROWS : DOMAIN g[y] = 1..COLS

C10_ConstructionFromGrid ==
    /\ (op = "new" /\ origin # "fresh")
          => /\ raised <=> ~RightDimensions(arg)
             /\ raised => self_grid = None
             /\ ~raised => (self_grid # None /\ Grid = arg)
    /\ (op = "get_grid" /\ origin = "supplied" /\ nmoves = 0 /\ nwrites = 0)
          => (heap[ret] = given /\ RightDimensions(given))

(* get_grid on a game constructed from a grid of the right dimensions. *)
C10_Witness ==
    /\ op = "get_grid"
    /\ origin = "supplied"
    /\ nmoves = 0
    /\ heap[ret] = given
    /\ given # NoGrid

(* C11: the changed flag of the line combiner is true exactly when the line
   it returns differs from the line it was given in some position.  A line
   without zeros and without an equal adjacent pair, and a line of zeros, are
   returned as they are with score 0 and changed false, in either direction;
   a line whose tiles only slide (zeros closed up, nothing merged) is
   returned with changed true and score 0. *)
NoEqualPair(s) == \A i \in 1..(Len(s) - 1) : s[i] # s[i + 1]

(* The line as seen from the end its tiles move toward. *)
Oriented(line, right) == IF right THEN Reversed(line) ELSE line

SlidesOnly(line, right) ==
    /\ NoEqualPair(WithoutZeros(line))
    /\ \E i \in 1..(Len(line) - 1) :
          Oriented(line, right)[i] = 0 /\ Oriented(line, right)[i + 1] # 0

C11_ChangedFlag ==
    op = "combine_tiles"
        => LET line == arg[1]
           IN  /\ ret.move <=> (\/ DOMAIN ret.tiles # DOMAIN line
                                \/ \E i \in DOMAIN line : ret.tiles[i] # line[i])
               /\ ((\A i \in DOMAIN line : line[i] # 0) /\ NoEqualPair(line))
                     => (ret.tiles = line /\ ret.merge_score = 0 /\ ~ret.move)
               /\ (\A i \in DOMAIN line : line[i] = 0)
                     => (ret.tiles = line /\ ret.merge_score = 0 /\ ~ret.move)
               /\ SlidesOnly(line, arg[2])
                     => (ret.move /\ ret.merge_score = 0)

(* [0,2,0,4] combined toward the near end: the tiles slide, nothing merges. *)
C11_Witness ==
    /\ op = "combine_tiles"
    /\ arg = << <<0, 2, 0, 4>>, FALSE >>
    /\ ret.tiles = <<2, 4, 0, 0>>
    /\ ret.merge_score = 0
    /\ ret.move

(* C12: a game constructed by Game() starts with exactly two non-empty cells,
   in two different positions, each holding 2 or 4, and every other cell 0. *)
C12_FreshGameHasTwoTiles ==
    (origin = "fresh" /\ op = "new")
        => \E c \in Cells, d \in Cells :
              /\ c # d
              /\ Grid[c[1]][c[2]] \in {2, 4}
              /\ Grid[d[1]][d[2]] \in {2, 4}
              /\ \A e \in Cells \ {c, d} : Grid[e[1]][e[2]] = 0

(* A new game that starts with a 2 and a 4. *)
C12_Witness ==
    /\ origin = "fresh"
    /\ op = "new"
    /\ nmoves = 0
    /\ \E c \in Cells, d \in Cells :
          /\ Grid[c[1]][c[2]] = 2
          /\ Grid[d[1]][d[2]] = 4
          /\ Cardinality(EmptyCells(Grid)) = ROWS * COLS - 2

(* C13: after a make_move that changed the grid, game over is returned
   exactly when no move in any of the four directions would change the grid
   as it is then; and once make_move has returned game over, every later
   make_move returns (0, False) and leaves the grid as it was, so that game
   over is never returned a second time. *)
NoMoveLeft(g) == \A direction \in Direction : Blocked(g, direction)

C13_GameOverIsFinal ==
    /\ (Moved /\ moved) => (ret[2] <=> NoMoveLeft(Grid))
    /\ (op = "make_move" /\ game_overs > 0)
          => /\ ~raised
             /\ ret[2] => (game_overs = 1 /\ moved)
             /\ ~ret[2] => (ret = <<0, FALSE>> /\ Grid = pre /\ ~moved)

(* A make_move after the one that returned game over. *)
C13_Witness ==
    /\ op = "make_move"
    /\ game_overs = 1
    /\ ~raised
    /\ ret = <<0, FALSE>>
    /\ Grid = pre
    /\ NoMoveLeft(Grid)

(* C14: combining a line toward the far end gives the reverse of what
   combining the reversed line toward the near end gives, with the same
   score and the same changed flag; of three equal tiles the two nearest the
   end moved toward merge: [2,2,2,0] toward the far end gives [0,0,2,4]. *)
C14_FarEndMirrorsNearEnd ==
    (op = "combine_tiles" /\ arg[2])
        => LET mirrored == combine_tiles(Reversed(arg[1]), FALSE)
           IN  /\ ret.tiles = Reversed(mirrored.tiles)
               /\ ret.merge_score = mirrored.merge_score
               /\ ret.move = mirrored.move
               /\ ret.tiles =
                     Reversed(PaddedTo(MergedOnce(WithoutZeros(Reversed(arg[1]))),
                                       Len(arg[1])))
               /\ arg[1] = <<2, 2, 2, 0>>
                     => (ret.tiles = <<0, 0, 2, 4>> /\ ret.merge_score = 4)

(* [2,2,2,0] combined toward the far end. *)
C14_Witness ==
    /\ op = "combine_tiles"
    /\ arg = << <<2, 2, 2, 0>>, TRUE >>
    /\ ret.tiles = <<0, 0, 2, 4>>
    /\ ret.merge_score = 4
    /\ ret.move

(* C15: the line combiner returns a line of exactly as many tiles as the line
   it was given, for rows (COLS tiles) and for columns (as many tiles as the
   grid is configured to have rows) alike. *)
C15_SameLength ==
    op = "combine_tiles" => Len(ret.tiles) = Len(arg[1])

(* C16: the slide/merge phase of a move keeps the sum of the tiles of the
   grid; across a make_move that changed the grid the sum grows by the value
   of the tile spawned, 2 or 4, and across one that changed nothing it stays
   the same. *)
(* The sum of the tiles: the size of the bag that holds every non-empty cell
   as many times as its tile says. *)
GridSum(g) ==
    BagCardinality([c \in Cells \ EmptyCells(g) |-> g[c[1]][c[2]]])

C16_TileSum ==
    Moved
        => \A before \in {GridSum(pre)}, after \in {GridSum(Grid)} :
              /\ GridSum(slid) = before
              /\ moved
                    => /\ after - before \in {2, 4}
                       /\ \E c \in EmptyCells(slid) :
                             Grid[c[1]][c[2]] = after - before
              /\ ~moved => after = before

(* A move that merged tiles and after which a 4 was spawned. *)
C16_Witness ==
    /\ Moved
    /\ moved
    /\ ret[1] > 0
    /\ GridSum(slid) = GridSum(pre)
    /\ GridSum(Grid) = GridSum(pre) + 4

(* C17: no make_move of a game constructed by Game() raises: every call of
   __set_tile made while the lines are written back or by the spawner has an
   even value and coordinates within the grid, so that no move stops
   half-written: the grid keeps its dimensions, what was written is even, and
   a move that moved tiles has spawned one. *)
C17_FreshGameNeverRaises ==
    origin = "fresh"
        => /\ ~raised
           /\ op = "make_move"
                 => /\ RightDimensions(Grid)
                    /\ \A c \in Cells :
                          /\ slid[c[1]][c[2]] % 2 = 0
                          /\ Grid[c[1]][c[2]] % 2 = 0
                    /\ moved => Grid # slid

(* A move of a new game that slid a tile along a column, after which a tile
   was spawned. *)
C17_Witness ==
    /\ origin = "fresh"
    /\ op = "make_move"
    /\ ~raised
    /\ arg = UP
    /\ moved
    /\ slid # pre
    /\ Grid # slid

(* C18: whenever the slide/merge phase of a make_move reports that tiles
   moved, the grid has an empty cell at that point, so the spawner places a
   tile; the spawner then returns false, and the game-over check runs, only
   when the tile filled the last empty cell.  Checked on the games played to
   their end, every move of which moves tiles. *)
C18_SpawnerFindsRoom ==
    (Moved /\ moved)
        => /\ EmptyCells(slid) # {}
           /\ \E c \in EmptyCells(slid) :
                 /\ Grid[c[1]][c[2]] \in {2, 4}
                 /\ \A d \in Cells \ {c} : Grid[d[1]][d[2]] = slid[d[1]][d[2]]
           /\ \A randint \in RandintDraws, choice \in Choices(slid) :
                 LET spawned == place_random_tile(slid, randint, choice)
                 IN  /\ spawned.grid # slid
                     /\ ~spawned.ret <=> Cardinality(EmptyCells(slid)) = 1
                     /\ ~spawned.ret => EmptyCells(spawned.grid) = {}
           /\ ret[2] => Cardinality(EmptyCells(slid)) = 1

(* A move of a full grid that merged tiles, after which the spawner filled
   the one cell the merge had emptied. *)
C18_Witness ==
    /\ Moved
    /\ moved
    /\ EmptyCells(pre) = {}
    /\ Cardinality(EmptyCells(slid)) = 1
    /\ EmptyCells(Grid) = {}

(* C19: every game ends.  A make_move that changes the grid makes the sum of
   its tiles greater, so a game has only finitely many of them; while the
   game is not over some direction changes the grid; and the player who
   calls make_move in a direction that changes the grid as long as there is
   one is in the end returned game over. *)
C19_EveryGameEnds ==
    /\ [][(op' = "make_move" /\ moved') => GridSum(Grid') > GridSum(Grid)]_nmoves
    /\ [](NotOver(Grid) <=> ~NoMoveLeft(Grid))
    /\ <>(game_overs > 0)

(* A game played to its end: game over was returned after several moves, the
   last of which merged tiles, and no move is left. *)
C19_Witness ==
    /\ op = "make_move"
    /\ game_overs = 1
    /\ nmoves > 2
    /\ ret[1] > 0
    /\ ret[2]
    /\ NoMoveLeft(Grid)

InRange(x, y) == 0 <= x /\ x < COLS /\ 0 <= y /\ y < ROWS

(* C20: __set_tile raises for every odd value and for every x outside
   0 .. COLS - 1 or y outside 0 .. ROWS - 1, and then leaves the grid as it
   was; otherwise it sets the cell of row y and column x to the value and
   changes no other cell. *)
C20_SetTile ==
    op = "set_tile"
        => LET x     == arg[1]
               y     == arg[2]
               value == arg[3]
           IN  IF value % 2 = 1 \/ ~InRange(x, y)
               THEN raised /\ Grid = pre
               ELSE /\ ~raised
                    /\ Grid[y + 1][x + 1] = value
                    /\ \A c \in Cells \ {<<y + 1, x + 1>>} :
                          Grid[c[1]][c[2]] = pre[c[1]][c[2]]

(* A 6 set in the last cell of the second row, which held something else. *)
C20_Witness ==
    /\ op = "set_tile"
    /\ ~raised
    /\ arg = <<COLS - 1, 1, 6>>
    /\ Grid[2][COLS] = 6
    /\ pre[2][COLS] # 6

=============================================================================
